---- MODULE Spec2Model ----
(***************************************************************************)
(* Model of torch/csrc/jit/script/concrete_module_type.{h,cpp}:            *)
(* RawConcreteModuleType (the builder), ConcreteModuleType (the finalized  *)
(* type), ConcreteModuleTypeData::operator== (the equality engine) and     *)
(* createTypeFromData (name resolution and registration in the Python      *)
(* compilation unit).                                                      *)
(***************************************************************************)
EXTENDS Integers, Sequences, FiniteSets, TLC

VARIABLES builders, finals, classes, mangleIndex, gil, pc, job, last

vars == <<builders, finals, classes, mangleIndex, gil, pc, job, last>>

(***************************************************************************)
(* Bounds of the exploration.                                              *)
(***************************************************************************)
\* build() calls explored (the classes registered in the compilation unit).
MaxFinals == 2
\* Entries of modules_ per builder.
MaxModules == 2
\* Entries per builder in the discovery of one module.
MaxMembers == 2
\* addModule calls with a null reference explored.
MaxNullModules == 1

(***************************************************************************)
(* Input domains: the objects the driver hands to the builder.             *)
(***************************************************************************)
BuilderIds == {"A", "B"}
Threads == {"t1", "t2"}

\* Python class objects (py::object pyClass_), compared by identity.
PyClasses == {"Foo", "FooAgain", "Bar"}

\* Python values stored as constants.  i1 and f1 are distinct objects that
\* compare equal (1 == 1.0), i2 is unequal to both, arrA and arrB are
\* multi-element arrays, whose == has no truth value.
PyValues == {"i1", "f1", "i2", "arrA", "arrB"}
PyArrays == {"arrA", "arrB"}
\* The values the driver finds under each constant name: k1 is a number, k2
\* an array.
ConstantValues(name) == IF name = "k1" THEN PyValues \ PyArrays ELSE PyArrays

\* Python function objects, compared by identity.
PyFunctions == {"fn1", "fn2"}

\* TypePtr values.  TensorDim is a tensor type carrying shape information.
FunctionTypes == {"FnIntToInt", "FnTensorToTensor"}
InterfaceTypes == {"IfaceP"}
ValueTypes == {"Tensor", "TensorDim", "Int"}

ConstantNames == {"k1", "k2"}
\* Attribute names and what the driver finds under each: w has any type and
\* flag, b is a plain tensor buffer.
AttributeNames == {"w", "b"}
AttributeTypes(name) ==
  IF name = "w" THEN ValueTypes \cup FunctionTypes ELSE {"Tensor"}
AttributeParams(name) == IF name = "w" THEN BOOLEAN ELSE {FALSE}
FunctionNames == {"f"}
MethodNames == {"forward"}
OverloadLists == {<<"fwd_a", "fwd_b">>, <<"fwd_b", "fwd_a">>}
FailedNames == {"bad"}
FailureReasons == {"reason1", "reason2"}
ModuleNames == {"a", "b"}
IterableModuleKinds == {"NONE", "LIST", "DICT"}

\* nullptr for ModuleInfo::meta_ (otherwise an index into finals) and for
\* ModuleInfo::type_.
NullMeta == 0
NullType == "nullptr"

\* The three ways a comparison can end.
T == "true"
F == "false"
Raise == "raise"

(***************************************************************************)
(* Containers.  An unordered_map is a function on the set of its keys.     *)
(***************************************************************************)
EmptyMap == [x \in {} |-> x]

\* An insertion that assigns when the key is present, as operator[] does.
EmplaceOverwrite(m, k, v) ==
  [x \in (DOMAIN m) \cup {k} |-> IF x = k THEN v ELSE m[x]]

\* std::unordered_map::emplace: inserts only when the key is absent.
Emplace(m, k, v) ==
  IF k \in DOMAIN m THEN m
  ELSE [x \in (DOMAIN m) \cup {k} |-> IF x = k THEN v ELSE m[x]]

\* A lookup that fails on a missing key, as std::unordered_map::at does: the
\* caller gets the failure where it expects an optional.
FindOrThrow(m, k) == IF k \in DOMAIN m THEN <<m[k]>> ELSE <<Raise>>

\* std::unordered_map::find: <<v>> when present, << >> for end().
Find(m, k) == IF k \in DOMAIN m THEN <<m[k]>> ELSE << >>

\* RawConcreteModuleType(py::object pyClass): a default-initialised
\* ConcreteModuleTypeData with pyClass_ set.
NewData(pyClass) ==
  [ isPoisoned_ |-> FALSE,
    constants_ |-> EmptyMap,
    attributes_ |-> EmptyMap,
    attributesInserted_ |-> << >>,
    overloads_ |-> EmptyMap,
    failedAttributes_ |-> EmptyMap,
    functionAttributes_ |-> EmptyMap,
    modules_ |-> << >>,
    iterableModuleKind_ |-> "NONE",
    pyClass_ |-> pyClass ]

(***************************************************************************)
(* Equality engine.  Every comparison yields the set of ways it can end:   *)
(* the iteration order of an unordered_map and the order std::sort leaves  *)
(* entries of equal name in are not fixed by the code.                     *)
(***************************************************************************)

\* lhs && rhs on outcome sets: rhs is evaluated only when lhs is true.
AndThen(l, r) == (l \ {T}) \cup (IF T \in l THEN r ELSE {})

Bool(b) == IF b THEN {T} ELSE {F}

\* PyObject_RichCompareBool(v, w, Py_EQ): 1 for the identical object, -1
\* when the comparison raises, else the truth of v == w.
NumericValue(v) == IF v = "i2" THEN 2 ELSE 1
PyObject_RichCompareBool(v, w) ==
  IF v = w THEN 1
  ELSE IF v \in PyArrays \/ w \in PyArrays THEN -1
  ELSE IF NumericValue(v) = NumericValue(w) THEN 1 ELSE 0

\* Constant::operator== reporting a failing comparison as "not equal".
ConstantEqSwallow(lhs, rhs) ==
  Bool(PyObject_RichCompareBool(lhs, rhs) = 1)

\* Constant::operator== reading the result as a three-way comparison does,
\* 0 for equal.
ConstantEqAsCmp(lhs, rhs) ==
  LET rv == PyObject_RichCompareBool(lhs, rhs)
  IN IF rv = -1 THEN {Raise} ELSE Bool(rv = 0)

\* Constant::operator==
ConstantEq(lhs, rhs) ==
  LET rv == PyObject_RichCompareBool(lhs, rhs)
  IN IF rv = -1 THEN {Raise} ELSE Bool(rv = 1)

\* FunctionAttribute::operator== comparing the function types instead.
FunctionAttributeEqByType(lhs, rhs) == Bool(lhs.function_ = rhs.function_)

\* FunctionAttribute::operator==: identity of the Python function object.
FunctionAttributeEq(lhs, rhs) == Bool(lhs.pyFunction_ = rhs.pyFunction_)

\* Attribute::operator== comparing the types only.
AttributeEqTypeOnly(lhs, rhs) == Bool(lhs.type_ = rhs.type_)

\* Attribute::operator==
AttributeEq(lhs, rhs) ==
  Bool(lhs.type_ = rhs.type_ /\ lhs.isParam_ = rhs.isParam_)

\* std::vector<std::string>::operator== (overload lists).
OverloadEq(lhs, rhs) == Bool(lhs = rhs)

\* std::unordered_map::operator==: sizes first, then every entry of lhs is
\* looked up in rhs and compared; the first entry that is missing, unequal
\* or raising ends the comparison, and which entry is first is not fixed.
\* elemEq[k] is the outcome of comparing the two values held under k.
MapEq(lhs, rhs, elemEq) ==
  IF Cardinality(DOMAIN lhs) # Cardinality(DOMAIN rhs) THEN {F}
  ELSE LET entry(k) == IF k \in DOMAIN rhs THEN elemEq[k] ELSE {F}
           ends == UNION {entry(k) \ {T} : k \in DOMAIN lhs}
       IN IF \A k \in DOMAIN lhs : T \in entry(k)
          THEN ends \cup {T}
          ELSE ends

\* lhs.constants_ == rhs.constants_
ConstantsEq(lhs, rhs) ==
  MapEq(lhs, rhs, [k \in DOMAIN lhs \cap DOMAIN rhs |-> ConstantEq(lhs[k], rhs[k])])

\* lhs.attributes_ == rhs.attributes_
AttributesEq(lhs, rhs) ==
  MapEq(lhs, rhs, [k \in DOMAIN lhs \cap DOMAIN rhs |-> AttributeEq(lhs[k], rhs[k])])

\* lhs.overloads_ == rhs.overloads_
OverloadsEq(lhs, rhs) ==
  MapEq(lhs, rhs, [k \in DOMAIN lhs \cap DOMAIN rhs |-> OverloadEq(lhs[k], rhs[k])])

\* lhs.functionAttributes_ == rhs.functionAttributes_
FunctionAttributesEq(lhs, rhs) ==
  MapEq(lhs, rhs,
        [k \in DOMAIN lhs \cap DOMAIN rhs |-> FunctionAttributeEq(lhs[k], rhs[k])])

\* The order of std::string operator< on the module names explored.
NameOrder == <<"a", "b">>
NameRank(n) == CHOOSE i \in 1..Len(NameOrder) : NameOrder[i] = n
NameLess(x, y) == NameRank(x) < NameRank(y)

IndexOrders(n) ==
  {p \in [1..n -> 1..n] : \A i, j \in 1..n : p[i] = p[j] => i = j}

\* The copy of modules_ left in place: no std::sort before the comparison.
SortedByNameNoSort(v) == {v}

\* auto sorted = modules_; std::sort(..., a.name_ < b.name_): every
\* arrangement of the copy in which no entry precedes one of lesser name.
SortedByName(v) ==
  { [i \in 1..Len(v) |-> v[p[i]]] :
      p \in {q \in IndexOrders(Len(v)) :
               \A i, j \in 1..Len(v) :
                  i < j => ~NameLess(v[q[j]].name_, v[q[i]].name_)} }

RECURSIVE ConcreteModuleType_equals(_, _)
RECURSIVE DataEq(_, _)
RECURSIVE VectorEqFrom(_, _, _)

\* operator==(ModuleInfo, ModuleInfo) with true in its last branch.
ModuleInfoEqDefaultTrue(lhs, rhs) ==
  IF lhs.meta_ # NullMeta /\ rhs.meta_ # NullMeta
  THEN ConcreteModuleType_equals(lhs.meta_, rhs.meta_)
  ELSE IF lhs.type_ # NullType /\ rhs.type_ # NullType
  THEN Bool(lhs.type_ = rhs.type_)
  ELSE {T}

\* operator==(ModuleInfo, ModuleInfo)
ModuleInfoEq(lhs, rhs) ==
  IF lhs.meta_ # NullMeta /\ rhs.meta_ # NullMeta
  THEN ConcreteModuleType_equals(lhs.meta_, rhs.meta_)
  ELSE IF lhs.type_ # NullType /\ rhs.type_ # NullType
  THEN Bool(lhs.type_ = rhs.type_)
  ELSE {F}

\* std::equal over two vectors of the same length, from position i on.
VectorEqFrom(l, r, i) ==
  IF i > Len(l) THEN {T}
  ELSE AndThen(ModuleInfoEq(l[i], r[i]), VectorEqFrom(l, r, i + 1))

\* std::vector<ModuleInfo>::operator==
VectorEq(l, r) == IF Len(l) # Len(r) THEN {F} ELSE VectorEqFrom(l, r, 1)

\* lhsSorted == rhsSorted: std::sort is a function of its input, so equal
\* vectors are left in the same arrangement.
SortedModulesEq(lhs, rhs) ==
  IF lhs = rhs
  THEN UNION {VectorEq(s, s) : s \in SortedByName(lhs)}
  ELSE UNION {VectorEq(s, t) : s \in SortedByName(lhs), t \in SortedByName(rhs)}

\* The cheap checks of operator== without the comparison of pyClass_.
FieldsEqNoClass(lhs, rhs) ==
  AndThen(Bool(lhs.iterableModuleKind_ = rhs.iterableModuleKind_),
  AndThen(ConstantsEq(lhs.constants_, rhs.constants_),
  AndThen(AttributesEq(lhs.attributes_, rhs.attributes_),
  AndThen(OverloadsEq(lhs.overloads_, rhs.overloads_),
          FunctionAttributesEq(lhs.functionAttributes_,
                               rhs.functionAttributes_)))))

\* The cheap checks of operator== followed by a comparison of
\* failedAttributes_.
FieldsEqWithFailed(lhs, rhs) ==
  AndThen(FieldsEqNoClass(lhs, rhs),
  AndThen(Bool(lhs.pyClass_ = rhs.pyClass_),
          MapEq(lhs.failedAttributes_, rhs.failedAttributes_,
                [k \in DOMAIN lhs.failedAttributes_ \cap DOMAIN rhs.failedAttributes_ |->
                   Bool(lhs.failedAttributes_[k] = rhs.failedAttributes_[k])])))

\* The cheap checks of operator==, in their order of evaluation.
FieldsEq(lhs, rhs) ==
  AndThen(Bool(lhs.pyClass_ = rhs.pyClass_),
  AndThen(Bool(lhs.iterableModuleKind_ = rhs.iterableModuleKind_),
  AndThen(ConstantsEq(lhs.constants_, rhs.constants_),
  AndThen(AttributesEq(lhs.attributes_, rhs.attributes_),
  AndThen(OverloadsEq(lhs.overloads_, rhs.overloads_),
          FunctionAttributesEq(lhs.functionAttributes_,
                               rhs.functionAttributes_))))))

\* operator== without the test of isPoisoned_.
DataEqNoPoison(lhs, rhs) ==
  AndThen(FieldsEq(lhs, rhs), SortedModulesEq(lhs.modules_, rhs.modules_))

\* operator== testing isPoisoned_ of its left operand only.
DataEqLhsPoisoned(lhs, rhs) ==
  IF lhs.isPoisoned_ THEN {F}
  ELSE AndThen(FieldsEq(lhs, rhs), SortedModulesEq(lhs.modules_, rhs.modules_))

\* operator==(ConcreteModuleTypeData, ConcreteModuleTypeData)
DataEq(lhs, rhs) ==
  IF lhs.isPoisoned_ \/ rhs.isPoisoned_ THEN {F}
  ELSE AndThen(FieldsEq(lhs, rhs), SortedModulesEq(lhs.modules_, rhs.modules_))

\* ConcreteModuleType::equals taking the structural comparison only for two
\* different compiled types.
ConcreteModuleType_equalsDistinctOnly(i, j) ==
  IF finals[i].jitType_ = finals[j].jitType_ THEN {F}
  ELSE DataEq(finals[i].data_, finals[j].data_)

\* ConcreteModuleType::equals; i and j index finals.
ConcreteModuleType_equals(i, j) ==
  IF finals[i].jitType_ = finals[j].jitType_ THEN {T}
  ELSE DataEq(finals[i].data_, finals[j].data_)

\* RawConcreteModuleType::equals(const RawConcreteModuleType&)
RawEqualsRaw(a, b) == DataEq(builders[a], builders[b])

\* RawConcreteModuleType::equals(const ConcreteModuleType&)
RawEqualsFinal(a, j) == DataEq(builders[a], finals[j].data_)


(***************************************************************************)
(* Builder: the setters of RawConcreteModuleType, as functions of data_.   *)
(***************************************************************************)

\* unshapedType(type): a tensor type loses its shape information, every
\* other type is returned as it is.
UnshapedType(type) == IF type = "TensorDim" THEN "Tensor" ELSE type

SetPoisoned(d) == [d EXCEPT !.isPoisoned_ = TRUE]

SetIterableModuleKind(d, kind) == [d EXCEPT !.iterableModuleKind_ = kind]

AddConstant(d, name, value) ==
  [d EXCEPT !.constants_ = Emplace(@, name, value)]

\* addAttribute with the first of its two assertions only.
AddAttributeAssertsNonNull(type) == type # NullType

\* The two TORCH_INTERNAL_ASSERTs of addAttribute.
AddAttributeAsserts(type) == type # NullType /\ type \notin FunctionTypes

\* attributes_.emplace(...): besides the entry, the container keeps what it
\* was built from, the keys in their order of insertion (attributesInserted_),
\* on which the order of a later iteration depends.
AddAttribute(d, name, type, isParameter) ==
  [d EXCEPT !.attributes_ =
              Emplace(@, name, [type_ |-> UnshapedType(type), isParam_ |-> isParameter]),
            !.attributesInserted_ =
              IF name \in DOMAIN d.attributes_ THEN @ ELSE Append(@, name)]

\* TORCH_INTERNAL_ASSERT(type) and type->expect<FunctionType>().
AddFunctionAttributeAsserts(type) == type # NullType /\ type \in FunctionTypes

AddFunctionAttribute(d, name, type, pyFunction) ==
  [d EXCEPT !.functionAttributes_ =
     Emplace(@, name, [function_ |-> type, pyFunction_ |-> pyFunction])]

AddModule(d, name, meta) ==
  [d EXCEPT !.modules_ =
     Append(@, [name_ |-> name, meta_ |-> meta, type_ |-> NullType])]

\* TORCH_INTERNAL_ASSERT(type->cast<InterfaceType>() && type->is_module()):
\* type is dereferenced without a test for nullptr, so a null type ends the
\* process before the assertion is evaluated.
AddModuleInterfaceAsserts(type) ==
  IF type = NullType THEN "crash"
  ELSE IF type \in InterfaceTypes THEN "holds" ELSE "assert"

AddModuleInterface(d, name, type) ==
  [d EXCEPT !.modules_ =
     Append(@, [name_ |-> name, meta_ |-> NullMeta, type_ |-> type])]

AddOverload(d, methodName, overloadedMethodNames) ==
  [d EXCEPT !.overloads_ = Emplace(@, methodName, overloadedMethodNames)]

AddFailedAttribute(d, name, failureReason) ==
  [d EXCEPT !.failedAttributes_ = Emplace(@, name, failureReason)]

(***************************************************************************)
(* Queries of ConcreteModuleType, as functions of data_.  An optional is a  *)
(* sequence: <<v>> when it holds v, << >> for nullopt.                      *)
(***************************************************************************)

\* function_->function(): the Function a function type stands for.
FunctionOf(type) == [function |-> type]

FindConstant(d, name) == Find(d.constants_, name)

FindOverloads(d, name) == Find(d.overloads_, name)

FindFunctionAttribute(d, name) ==
  IF name \notin DOMAIN d.functionAttributes_ THEN << >>
  ELSE <<FunctionOf(Find(d.functionAttributes_, name)[1].function_)>>

FindFailedAttribute(d, name) == Find(d.failedAttributes_, name)

\* std::find_if over modules_: the first entry of that name, if any; its
\* meta_ is returned, nullptr when there is no entry.
FindSubmoduleConcreteType(d, name) ==
  LET hits == {i \in 1..Len(d.modules_) : d.modules_[i].name_ = name}
  IN IF hits = {} THEN NullMeta
     ELSE d.modules_[CHOOSE i \in hits : \A j \in hits : i <= j].meta_

(***************************************************************************)
(* createTypeFromData: the class name, the compilation unit, the fields.   *)
(***************************************************************************)

\* torch._jit_internal._qualified_name(pyClass): Foo and FooAgain are two
\* class objects of the same qualified name M, FooAgain reported without a
\* module prefix.
PyQualifiedName(pyClass) ==
  IF pyClass = "Foo" THEN [prefix |-> "__torch__", name |-> "M"]
  ELSE IF pyClass = "FooAgain" THEN [prefix |-> "", name |-> "M"]
  ELSE [prefix |-> "pkg", name |-> "N"]

\* A c10::QualifiedName: prefix, mangle namespace (-1: none), base name.
QualifiedName(prefix, name) == [prefix |-> prefix, mangle |-> -1, name |-> name]

\* className as computed before the lookup: the qualified name of the class,
\* put under __torch__ when it has no prefix.
ClassNameFor(pyClass) ==
  LET q == PyQualifiedName(pyClass)
  IN IF q.prefix = "" THEN QualifiedName("__torch__", q.name)
     ELSE QualifiedName(q.prefix, q.name)

\* cu->get_class(className) != nullptr
GetClass(cu, className) == \E i \in 1..Len(cu) : cu[i].name = className

\* cu->mangle(className): a mangle namespace numbered by the unit's counter
\* is put before the base name.
Mangle(className, index) == [className EXCEPT !.mangle = index]

\* Pointer identity of the class type registered at position i of the unit.
ClassRefs == <<"class1", "class2", "class3", "class4", "class5", "class6">>

\* ModuleInfo::getJitType()
ModuleJitType(info) ==
  IF info.meta_ = NullMeta THEN info.type_
  ELSE ClassRefs[finals[info.meta_].jitType_]

\* The orders in which a range-for can visit the entries of an
\* unordered_map: every arrangement of its keys.
IterationOrders(m) ==
  LET n == Cardinality(DOMAIN m)
  IN {s \in [1..n -> DOMAIN m] : \A i, j \in 1..n : s[i] = s[j] => i = j}

\* cls->addAttribute for every attribute, visited in the order keys, then for
\* every entry of modules_ in vector order.
ClassFields(data, keys) ==
  [i \in 1..Len(keys) |->
     [name |-> keys[i], type |-> data.attributes_[keys[i]].type_,
      is_parameter |-> data.attributes_[keys[i]].isParam_]]
  \o
  [i \in 1..Len(data.modules_) |->
     [name |-> data.modules_[i].name_, type |-> ModuleJitType(data.modules_[i]),
      is_parameter |-> FALSE]]


\* ClassType::addAttribute refuses a name the class already has a field of:
\* the positions of `fields` at which it does.
NameClashes(fields) ==
  {i \in 1..Len(fields) : \E j \in 1..(i - 1) : fields[j].name = fields[i].name}

\* The fields the class holds when the loops of createTypeFromData are left:
\* all of `fields`, or those before the first one that is refused.
FieldsAdded(fields) ==
  IF NameClashes(fields) = {} THEN fields
  ELSE SubSeq(fields, 1, (CHOOSE i \in NameClashes(fields) :
                            \A j \in NameClashes(fields) : i <= j) - 1)


(***************************************************************************)
(* State.                                                                  *)
(*   builders     data_ of every RawConcreteModuleType                     *)
(*   finals       the ConcreteModuleType objects made so far: data_ and    *)
(*                jitType_ (the position of its class in `classes`)        *)
(*   classes      the class types registered in the compilation unit       *)
(*   mangleIndex  the unit's mangle counter                                *)
(*   gil          the thread holding the Python interpreter lock           *)
(*   pc, job      position and locals of a thread inside build()           *)
(*   last         what the call in progress hands back to the driver: the  *)
(*                result of a comparison or a failed assertion; NoResult   *)
(*                while the driver is between calls                        *)
(***************************************************************************)
NoThread == "free"
NoJob == [builder |-> "none"]
NoResult == [op |-> "void"]

\* Nothing built, nothing registered, no call in progress.
Fresh ==
  /\ finals = << >>
  /\ classes = << >>
  /\ mangleIndex = 0
  /\ gil = NoThread
  /\ pc = [t \in Threads |-> "idle"]
  /\ job = [t \in Threads |-> NoJob]
  /\ last = NoResult

\* Builder A made for class Foo, builder B for any class.
Init ==
  /\ builders \in {f \in [BuilderIds -> {NewData(c) : c \in PyClasses}] :
                     f["A"].pyClass_ = "Foo"}
  /\ Fresh

\* Both builders made for modules of the same class.
InitSameClass ==
  /\ builders = [b \in BuilderIds |-> NewData("Foo")]
  /\ Fresh

\* Both builders made for modules of the same class and the same iterable
\* kind, which the driver sets right after constructing a builder.
InitKinds ==
  /\ \E kind \in IterableModuleKinds :
       builders = [b \in BuilderIds |->
                     SetIterableModuleKind(NewData("Foo"), kind)]
  /\ Fresh

\* A descriptor on which the driver has called, for every member kind in
\* kinds, the setter of that kind once.
Populated(pyClass, kinds) ==
  LET d0 == NewData(pyClass)
      d1 == IF "constant" \in kinds THEN AddConstant(d0, "k1", "i1") ELSE d0
      d2 == IF "overload" \in kinds
            THEN AddOverload(d1, "forward", <<"fwd_a", "fwd_b">>) ELSE d1
      d3 == IF "function" \in kinds
            THEN AddFunctionAttribute(d2, "f", "FnIntToInt", "fn1") ELSE d2
      d4 == IF "failed" \in kinds
            THEN AddFailedAttribute(d3, "bad", "reason1") ELSE d3
  IN d4

MemberKinds == {"constant", "overload", "function", "failed"}

\* Builder A after the discovery of a constant, an overload, a function and
\* a failed attribute, builder B new.
InitQueries ==
  /\ builders = [b \in BuilderIds |->
                   IF b = "A" THEN Populated("Foo", MemberKinds)
                   ELSE NewData("Bar")]
  /\ Fresh

FinalIds == 1..Len(finals)

\* The driver is between calls and no thread is inside the interpreter.
DriverReady == gil = NoThread /\ last = NoResult

\* The process has been ended by a signal.
Crashed == last.op = "SIGSEGV"

\* The driver takes what the call handed back and goes on.
Return ==
  /\ last # NoResult
  /\ ~Crashed
  /\ last' = NoResult
  /\ UNCHANGED <<builders, finals, classes, mangleIndex, gil, pc, job>>

\* A setter writing through to the ConcreteModuleTypes built from the
\* builder, as if build() had handed out the builder's data_ itself and not
\* a copy of it.
StoreShared(b, d) ==
  /\ DriverReady
  /\ builders' = [builders EXCEPT ![b] = d]
  /\ finals' = [i \in FinalIds |->
                  IF finals[i].data_ = builders[b]
                  THEN [finals[i] EXCEPT !.data_ = d] ELSE finals[i]]
  /\ last' = NoResult
  /\ UNCHANGED <<classes, mangleIndex, gil, pc, job>>

\* A setter that returns: data_ of builder b becomes d.
Store(b, d) ==
  /\ DriverReady
  /\ builders' = [builders EXCEPT ![b] = d]
  /\ last' = NoResult
  /\ UNCHANGED <<finals, classes, mangleIndex, gil, pc, job>>

\* A call that throws out of a TORCH_INTERNAL_ASSERT: nothing is stored.
Throw(op) ==
  /\ DriverReady
  /\ last' = [op |-> op, result |-> "assert"]
  /\ UNCHANGED <<builders, finals, classes, mangleIndex, gil, pc, job>>

\* A call that dereferences a null pointer (addModuleInterface, dump): the process is ended by the
\* signal, and nothing runs after it.
Crash(op) ==
  /\ DriverReady
  /\ last' = [op |-> "SIGSEGV", in |-> op]
  /\ UNCHANGED <<builders, finals, classes, mangleIndex, gil, pc, job>>

DoSetPoisoned(b) == Store(b, SetPoisoned(builders[b]))

DoSetIterableModuleKind(b) ==
  \E kind \in IterableModuleKinds :
    Store(b, SetIterableModuleKind(builders[b], kind))

DoAddConstant(b) ==
  \E name \in ConstantNames :
    \E value \in ConstantValues(name) :
      Store(b, AddConstant(builders[b], name, value))

DoAddAttribute(b) ==
  \E name \in AttributeNames :
    \E type \in AttributeTypes(name), isParameter \in AttributeParams(name) :
      IF AddAttributeAsserts(type)
      THEN Store(b, AddAttribute(builders[b], name, type, isParameter))
      ELSE Throw("addAttribute")

DoAddFunctionAttribute(b) ==
  \E name \in FunctionNames, type \in FunctionTypes \cup {"Int"},
     pyFunction \in PyFunctions :
    IF AddFunctionAttributeAsserts(type)
    THEN Store(b, AddFunctionAttribute(builders[b], name, type, pyFunction))
    ELSE Throw("addFunctionAttribute")

DoAddOverload(b) ==
  \E methodName \in MethodNames, names \in OverloadLists :
    Store(b, AddOverload(builders[b], methodName, names))

DoAddFailedAttribute(b) ==
  \E name \in FailedNames, reason \in FailureReasons :
    Store(b, AddFailedAttribute(builders[b], name, reason))

\* The entries of the builders that hold neither a nested type nor an
\* interface type.
NullModules ==
  {<<b, i>> \in BuilderIds \X (1..MaxModules) :
     /\ i <= Len(builders[b].modules_)
     /\ builders[b].modules_[i].meta_ = NullMeta
     /\ builders[b].modules_[i].type_ = NullType}

\* modules_.emplace_back: any name, one already in modules_ included, and any
\* reference, nullptr included.  The driver stops at MaxModules entries, and
\* at MaxNullModules entries made with nullptr.
DoAddModule(b) ==
  /\ Len(builders[b].modules_) < MaxModules
  /\ \E name \in ModuleNames, meta \in FinalIds \cup {NullMeta} :
       /\ meta = NullMeta => Cardinality(NullModules) < MaxNullModules
       /\ Store(b, AddModule(builders[b], name, meta))

DoAddModuleInterface(b) ==
  /\ Len(builders[b].modules_) < MaxModules
  /\ \E name \in ModuleNames, type \in InterfaceTypes \cup {"Int", NullType} :
       CASE AddModuleInterfaceAsserts(type) = "holds" ->
              Store(b, AddModuleInterface(builders[b], name, type))
         [] AddModuleInterfaceAsserts(type) = "assert" ->
              Throw("addModuleInterface")
         [] AddModuleInterfaceAsserts(type) = "crash" ->
              Crash("addModuleInterface")

\* data_ of a builder after build(): the method is const and hands data_ to
\* the constructor by value, so the builder keeps what it held.
AfterBuild(d) == d

\* The calls of build() that are under way.
InBuild == {t \in Threads : pc[t] # "idle"}

\* An operand of operator== after a comparison that sorted modules_ where it
\* is, and not in a copy.
AfterEqSortedInPlace(d) ==
  [d EXCEPT !.modules_ = CHOOSE s \in SortedByName(d.modules_) : TRUE]

\* An operand of operator== after the comparison: both are taken by const
\* reference, and the sort works on the copies lhsSorted and rhsSorted.
AfterEq(d) == d

\* A comparison returns or throws one of the outcomes.  lhs and rhs name the
\* operands: a builder, or the position of a ConcreteModuleType in finals.
Compare(kind, lhs, rhs, outcomes) ==
  /\ DriverReady
  /\ \E r \in outcomes :
       last' = [op |-> kind, lhs |-> lhs, rhs |-> rhs, result |-> r]
  /\ builders' =
       [b \in BuilderIds |->
          IF \/ kind # "final.equals(final)" /\ b = lhs
             \/ kind = "raw.equals(raw)" /\ b = rhs
          THEN AfterEq(builders[b]) ELSE builders[b]]
  /\ finals' =
       [i \in FinalIds |->
          IF \/ kind = "final.equals(final)" /\ i = lhs
             \/ kind # "raw.equals(raw)" /\ i = rhs
          THEN [finals[i] EXCEPT !.data_ = AfterEq(@)] ELSE finals[i]]
  /\ UNCHANGED <<classes, mangleIndex, gil, pc, job>>

\* bool a.equals(const RawConcreteModuleType& b)
EqualsRawRaw(a, b) == Compare("raw.equals(raw)", a, b, RawEqualsRaw(a, b))

\* bool a.equals(const ConcreteModuleType& finals[j])
EqualsRawFinal(a) ==
  \E j \in FinalIds :
    Compare("raw.equals(final)", a, j, RawEqualsFinal(a, j))

\* bool finals[i].equals(const ConcreteModuleType& finals[j])
EqualsFinalFinal ==
  \E i, j \in FinalIds :
    Compare("final.equals(final)", i, j, ConcreteModuleType_equals(i, j))

\* The names a query is asked for: those the setters are called with and
\* one that is never added.
QueryNames ==
  ConstantNames \cup MethodNames \cup FunctionNames \cup FailedNames
    \cup ModuleNames \cup {"missing"}

\* A const query of finals[i] hands its result to the driver.
Query(op, i, name, result) ==
  /\ DriverReady
  /\ last' = [op |-> op, on |-> i, name |-> name, result |-> result]
  /\ UNCHANGED <<builders, finals, classes, mangleIndex, gil, pc, job>>

\* dump() evaluates info.getJitType()->python_str() for every entry of
\* modules_ (cpp:207-210): getJitType() is null for an entry that holds
\* neither a nested type nor an interface type.
DumpDereferencesNull(d) ==
  \E i \in 1..Len(d.modules_) : ModuleJitType(d.modules_[i]) = NullType

\* void ConcreteModuleType::dump() const: the fields are printed and nothing
\* is changed, or the process is ended on the way.
DoDump ==
  \E i \in FinalIds :
    IF DumpDereferencesNull(finals[i].data_)
    THEN Crash("dump")
    ELSE /\ DriverReady
         /\ last' = [op |-> "dump", on |-> i]
         /\ UNCHANGED <<builders, finals, classes, mangleIndex, gil, pc, job>>

DoFindConstant ==
  \E i \in FinalIds, name \in QueryNames :
    Query("findConstant", i, name, FindConstant(finals[i].data_, name))

DoFindOverloads ==
  \E i \in FinalIds, name \in QueryNames :
    Query("findOverloads", i, name, FindOverloads(finals[i].data_, name))

DoFindFunctionAttribute ==
  \E i \in FinalIds, name \in QueryNames :
    Query("findFunctionAttribute", i, name,
          FindFunctionAttribute(finals[i].data_, name))

DoFindFailedAttribute ==
  \E i \in FinalIds, name \in QueryNames :
    Query("findFailedAttribute", i, name,
          FindFailedAttribute(finals[i].data_, name))

DoFindSubmoduleConcreteType ==
  \E i \in FinalIds, name \in QueryNames :
    Query("findSubmoduleConcreteType", i, name,
          FindSubmoduleConcreteType(finals[i].data_, name))

(***************************************************************************)
(* build(), step by step.  createTypeFromData calls into Python            *)
(* (py::module::import, _qualified_name) without taking the interpreter    *)
(* lock itself, so it runs with the lock held by its caller.  Inside the   *)
(* Python call the interpreter can hand the lock to another thread, or run *)
(* a signal handler in the calling thread; either can call the setters,    *)
(* the comparisons, the queries and build() before the call returns.       *)
(* Threads names the calls of build() that can be under way at one time.   *)
(***************************************************************************)

\* The lock is given up at every step, as if it were not held across the
\* C++ statements.
GilAfterReleased(t, step) == NoThread

\* The holder of the lock after thread t has done `step`.
GilAfter(t, step) ==
  IF step \in {"qualified_name", "populate"} THEN NoThread ELSE t

\* Thread t can run: it holds the lock, or takes it when it is free.  The
\* lock is not free while a call of the driver is in progress, nor is there
\* anything to take it once the process has been ended.
CanRun(t) == gil = t \/ (gil = NoThread /\ last = NoResult)

\* build() entered: data_ is copied into the new ConcreteModuleType.
BuildCall(t, b) ==
  /\ pc[t] = "idle"
  /\ DriverReady
  /\ Len(classes) + Cardinality(InBuild \ {u \in Threads : pc[u] = "populate"})
       < MaxFinals
  /\ job' = [job EXCEPT ![t] = [builder |-> b, data |-> builders[b],
                                className |-> ClassNameFor(builders[b].pyClass_),
                                cls |-> 0]]
  /\ pc' = [pc EXCEPT ![t] = "qualified_name"]
  /\ gil' = t
  /\ builders' = [builders EXCEPT ![b] = AfterBuild(@)]
  /\ UNCHANGED <<finals, classes, mangleIndex, last>>

\* lines 9-15: _qualified_name(data.pyClass_) and the __torch__ prefix.
QualifiedNameStep(t) ==
  /\ pc[t] = "qualified_name"
  /\ CanRun(t)
  /\ pc' = [pc EXCEPT ![t] = "get_class"]
  /\ gil' = GilAfter(t, "qualified_name")
  /\ UNCHANGED <<builders, finals, classes, mangleIndex, job, last>>

\* The lookup left out: the name is taken to be free.
GetClassStepNoLookup(t) ==
  /\ pc[t] = "get_class"
  /\ CanRun(t)
  /\ pc' = [pc EXCEPT ![t] = "create"]
  /\ gil' = GilAfter(t, "get_class")
  /\ UNCHANGED <<builders, finals, classes, mangleIndex, job, last>>

\* line 16: cu->get_class(className) != nullptr
GetClassStep(t) ==
  /\ pc[t] = "get_class"
  /\ CanRun(t)
  /\ pc' = [pc EXCEPT ![t] =
              IF GetClass(classes, job[t].className) THEN "mangle" ELSE "create"]
  /\ gil' = GilAfter(t, "get_class")
  /\ UNCHANGED <<builders, finals, classes, mangleIndex, job, last>>

\* line 17: className = cu->mangle(className)
MangleStep(t) ==
  /\ pc[t] = "mangle"
  /\ CanRun(t)
  /\ job' = [job EXCEPT ![t].className = Mangle(@, mangleIndex)]
  /\ mangleIndex' = mangleIndex + 1
  /\ pc' = [pc EXCEPT ![t] = "create"]
  /\ gil' = GilAfter(t, "mangle")
  /\ UNCHANGED <<builders, finals, classes, last>>

\* lines 19-20: ClassType::create and cu->register_type(cls)
RegisterStep(t) ==
  /\ pc[t] = "create"
  /\ CanRun(t)
  /\ classes' = Append(classes, [name |-> job[t].className, attributes |-> << >>])
  /\ job' = [job EXCEPT ![t].cls = Len(classes) + 1]
  /\ pc' = [pc EXCEPT ![t] = "populate"]
  /\ gil' = GilAfter(t, "create")
  /\ UNCHANGED <<builders, finals, mangleIndex, last>>

\* lines 22-36 and the return of build(): the fields are added and the
\* ConcreteModuleType is handed to the caller.  When addAttribute refuses a
\* field, the exception leaves createTypeFromData, the constructor and
\* build(): the class stays registered with the fields it has got, and no
\* ConcreteModuleType is made.
PopulateStep(t) ==
  /\ pc[t] = "populate"
  /\ CanRun(t)
  /\ \E keys \in IterationOrders(job[t].data.attributes_) :
       LET fields == ClassFields(job[t].data, keys)
       IN /\ classes' = [classes EXCEPT ![job[t].cls].attributes =
                           FieldsAdded(fields)]
          /\ IF NameClashes(fields) = {}
             THEN /\ finals' = Append(finals, [data_ |-> job[t].data,
                                               jitType_ |-> job[t].cls])
                  /\ job' = [job EXCEPT ![t] = NoJob]
             ELSE /\ finals' = finals
                  /\ job' = [job EXCEPT ![t] = NoJob]
  /\ pc' = [pc EXCEPT ![t] = "idle"]
  /\ gil' = GilAfter(t, "populate")
  /\ UNCHANGED <<builders, mangleIndex, last>>

\* A thread inside build() goes one step on.
BuildStep(t) ==
  \/ QualifiedNameStep(t)
  \/ GetClassStep(t)
  \/ MangleStep(t)
  \/ RegisterStep(t)
  \/ PopulateStep(t)

(***************************************************************************)
(* Specifications.                                                         *)
(***************************************************************************)

\* Lifecycle: poisoning, iterable kind, build and the three comparisons,
\* for builders of equal and of different classes.
Next ==
  \/ \E b \in BuilderIds :
       \/ DoSetPoisoned(b)
       \/ DoSetIterableModuleKind(b)
       \/ \E t \in Threads : BuildCall(t, b)
       \/ EqualsRawFinal(b)
       \/ \E c \in BuilderIds : EqualsRawRaw(b, c)
  \/ EqualsFinalFinal
  \/ \E t \in Threads : BuildStep(t)
  \/ Return

Spec == Init /\ [][Next]_vars

\* Constants.
NextConstants ==
  \/ \E b \in BuilderIds :
       \/ DoAddConstant(b)
       \/ \E t \in Threads : BuildCall(t, b)
       \/ EqualsRawFinal(b)
       \/ \E c \in BuilderIds : EqualsRawRaw(b, c)
  \/ EqualsFinalFinal
  \/ \E t \in Threads : BuildStep(t)
  \/ Return

SpecConstants == InitSameClass /\ [][NextConstants]_vars

\* Function attributes and overloads.
NextFunctions ==
  \/ \E b \in BuilderIds :
       \/ DoAddFunctionAttribute(b)
       \/ DoAddOverload(b)
       \/ \E t \in Threads : BuildCall(t, b)
       \/ EqualsRawFinal(b)
       \/ \E c \in BuilderIds : EqualsRawRaw(b, c)
  \/ EqualsFinalFinal
  \/ \E t \in Threads : BuildStep(t)
  \/ Return

SpecFunctions == InitSameClass /\ [][NextFunctions]_vars

\* Submodules, for builders of one class and one iterable kind.
NextModules ==
  \/ \E b \in BuilderIds :
       \/ DoAddModule(b)
       \/ DoAddModuleInterface(b)
       \/ \E t \in Threads : BuildCall(t, b)
       \/ EqualsRawFinal(b)
       \/ \E c \in BuilderIds : EqualsRawRaw(b, c)
  \/ EqualsFinalFinal
  \/ \E t \in Threads : BuildStep(t)
  \/ Return

SpecModules == InitKinds /\ [][NextModules]_vars

\* Attributes.
NextAttributes ==
  \/ \E b \in BuilderIds :
       \/ DoAddAttribute(b)
       \/ \E t \in Threads : BuildCall(t, b)
       \/ EqualsRawFinal(b)
       \/ \E c \in BuilderIds : EqualsRawRaw(b, c)
  \/ EqualsFinalFinal
  \/ \E t \in Threads : BuildStep(t)
  \/ Return

SpecAttributes == InitSameClass /\ [][NextAttributes]_vars

\* Failed attributes, next to overloads.
NextFailed ==
  \/ \E b \in BuilderIds :
       \/ DoAddFailedAttribute(b)
       \/ DoAddOverload(b)
       \/ \E t \in Threads : BuildCall(t, b)
       \/ EqualsRawFinal(b)
       \/ \E c \in BuilderIds : EqualsRawRaw(b, c)
  \/ EqualsFinalFinal
  \/ \E t \in Threads : BuildStep(t)
  \/ Return

SpecFailed == InitSameClass /\ [][NextFailed]_vars

\* The queries of a ConcreteModuleType, on types built from a populated
\* builder to which submodules are added.
NextQueries ==
  \/ DoAddModule("A")
  \/ DoAddModuleInterface("A")
  \/ DoSetPoisoned("A")
  \/ \E b \in BuilderIds, t \in Threads : BuildCall(t, b)
  \/ DoFindConstant
  \/ DoFindOverloads
  \/ DoFindFunctionAttribute
  \/ DoFindFailedAttribute
  \/ DoFindSubmoduleConcreteType
  \/ DoDump
  \/ EqualsFinalFinal
  \/ \E t \in Threads : BuildStep(t)
  \/ Return

SpecQueries == InitQueries /\ [][NextQueries]_vars

\* The entries a descriptor holds: those of its maps and of modules_.
Members(d) ==
  Cardinality(DOMAIN d.constants_) + Cardinality(DOMAIN d.attributes_)
    + Cardinality(DOMAIN d.functionAttributes_) + Cardinality(DOMAIN d.overloads_)
    + Cardinality(DOMAIN d.failedAttributes_) + Len(d.modules_)

\* The discovery of one module: the nine setters, called on builder A as long
\* as it holds no more than MaxMembers entries; builder B is built to have
\* types to pass to addModule.
NextSetters ==
  \/ \E b \in {"A"} :
       \/ DoSetPoisoned(b)
       \/ DoSetIterableModuleKind(b)
       \/ /\ \/ DoAddConstant(b)
             \/ DoAddAttribute(b)
             \/ DoAddFunctionAttribute(b)
             \/ DoAddOverload(b)
             \/ DoAddFailedAttribute(b)
             \/ DoAddModule(b)
             \/ DoAddModuleInterface(b)
          /\ Members(builders'[b]) <= MaxMembers
  \/ \E t \in Threads : BuildCall(t, "B")
  \/ \E t \in Threads : BuildStep(t)
  \/ Return

SpecSetters == InitSameClass /\ [][NextSetters]_vars

\* Comparisons in both directions: submodules of both kinds, nested types
\* compared in turn, and a builder that may be poisoned.
NextSymmetry ==
  \/ DoSetPoisoned("A")
  \/ \E b \in BuilderIds :
       \/ DoAddModule(b)
       \/ DoAddModuleInterface(b)
       \/ \E t \in Threads : BuildCall(t, b)
       \/ \E c \in BuilderIds : EqualsRawRaw(b, c)
  \/ EqualsFinalFinal
  \/ \E t \in Threads : BuildStep(t)
  \/ Return

SpecSymmetry == InitSameClass /\ [][NextSymmetry]_vars

\* Two calls of build() under way, and nothing else but addConstant called
\* while one of them is inside its Python call.
NextThreads ==
  \/ \E t \in Threads :
       \/ \E b \in BuilderIds : BuildCall(t, b)
       \/ BuildStep(t)
  \/ \E b \in BuilderIds : DoAddConstant(b)

SpecThreads == Init /\ [][NextThreads]_vars


(***************************************************************************)
(* Properties.  A comparison that has just returned is described by        *)
(* `last`: its form, its operands and its result.                          *)
(***************************************************************************)
RawRaw == "raw.equals(raw)"
RawFinal == "raw.equals(final)"
FinalFinal == "final.equals(final)"

Compared == last.op \in {RawRaw, RawFinal, FinalFinal}

\* The descriptors the comparison in `last` was called on and with.
LhsData ==
  IF last.op = FinalFinal THEN finals[last.lhs].data_ ELSE builders[last.lhs]
RhsData ==
  IF last.op = RawRaw THEN builders[last.rhs] ELSE finals[last.rhs].data_

\* A ConcreteModuleType compared with itself.
SameFinal == last.op = FinalFinal /\ last.lhs = last.rhs

\* C1 as stated: a descriptor on which setPoisoned() has been called equals
\* nothing, not even itself, as a builder and as a finalized type.
C1_PoisonedEqualsNothing ==
  (Compared /\ LhsData.isPoisoned_) => last.result = F

\* C1 amended: a comparison with a poisoned descriptor on either side returns
\* false, except that of a poisoned ConcreteModuleType with itself, which
\* returns true (the two sides hold the identical compiled class type).
C1_PoisonedEqualsOnlyItselfOnceBuilt ==
  (Compared /\ (LhsData.isPoisoned_ \/ RhsData.isPoisoned_)) =>
     last.result = (IF SameFinal THEN T ELSE F)

\* A poisoned builder has been compared with itself and found unequal.
C1_Witness ==
  /\ last.op = RawRaw
  /\ last.lhs = last.rhs
  /\ builders[last.lhs].isPoisoned_
  /\ last.result = F

\* C2: a non-poisoned ConcreteModuleType compared with itself is equal,
\* whatever it holds.
C2_Reflexive ==
  (SameFinal /\ ~LhsData.isPoisoned_) => last.result = T

\* A ConcreteModuleType holding a nested type and an interface entry has been
\* compared with itself.
C2_Witness ==
  /\ SameFinal
  /\ last.result = T
  /\ \E i, j \in 1..Len(LhsData.modules_) :
       /\ LhsData.modules_[i].meta_ # NullMeta
       /\ LhsData.modules_[j].type_ # NullType

\* C3: every build that has returned, and every build that has got as far as
\* register_type, has registered exactly one new class type, the registered
\* names are pairwise distinct, and every ConcreteModuleType holds a class
\* type of its own.
C3_MangleOnCollision ==
  /\ Len(classes) = Len(finals) + Cardinality({t \in Threads : pc[t] = "populate"})
  /\ \A i, j \in 1..Len(classes) : i # j => classes[i].name # classes[j].name
  /\ \A i \in FinalIds : finals[i].jitType_ \in 1..Len(classes)
  /\ \A i, j \in FinalIds : i # j => finals[i].jitType_ # finals[j].jitType_

\* Two builds for two classes of the same qualified name: the second class
\* type is registered under a mangled name.
C3_Witness ==
  /\ Len(finals) = 2
  /\ finals[1].data_.pyClass_ # finals[2].data_.pyClass_
  /\ classes[finals[1].jitType_].name = QualifiedName("__torch__", "M")
  /\ classes[finals[2].jitType_].name = Mangle(QualifiedName("__torch__", "M"), 0)

\* The class types registered so far carry pairwise distinct names.
NamesDistinct ==
  \A i, j \in 1..Len(classes) : i # j => classes[i].name # classes[j].name

\* The threads that have looked the name up and not yet registered a class.
InCriticalSection == {t \in Threads : pc[t] \in {"mangle", "create"}}

\* C4: between the lookup of the name and the registration of the class a
\* build runs alone (it holds the interpreter lock, and no other build is
\* between its own lookup and registration), so no two builds register class
\* types under the same name.
C4_LookupRegisterExclusive ==
  /\ Cardinality(InCriticalSection) <= 1
  /\ \A t \in InCriticalSection : gil = t
  /\ NamesDistinct

\* Two builds for the same name are under way: one has found the name free
\* and is about to register it, the other has not yet looked it up.
C4_Witness ==
  \E t, u \in Threads :
    /\ pc[t] = "create"
    /\ pc[u] = "get_class"
    /\ job[t].className = job[u].className

\* The constant names whose two values cannot be compared.
RaisingNames ==
  {k \in DOMAIN LhsData.constants_ \cap DOMAIN RhsData.constants_ :
     PyObject_RichCompareBool(LhsData.constants_[k], RhsData.constants_[k]) = -1}

\* The constant names whose two values compare unequal.
UnequalNames ==
  {k \in DOMAIN LhsData.constants_ \cap DOMAIN RhsData.constants_ :
     PyObject_RichCompareBool(LhsData.constants_[k], RhsData.constants_[k]) = 0}

\* Two non-poisoned descriptors of the same class, iterable kind and constant
\* names have been compared, and the values under some name are incomparable.
C5_Case ==
  /\ Compared
  /\ ~LhsData.isPoisoned_ /\ ~RhsData.isPoisoned_
  /\ LhsData.pyClass_ = RhsData.pyClass_
  /\ LhsData.iterableModuleKind_ = RhsData.iterableModuleKind_
  /\ DOMAIN LhsData.constants_ = DOMAIN RhsData.constants_
  /\ RaisingNames # {}

\* C5 as stated: the comparison of such a pair always ends in the failure.
C5_FailureAlwaysPropagates == C5_Case => last.result = Raise

\* C5 amended: the comparison of such a pair never returns true; it ends in
\* the failure whenever no other shared name holds unequal values, and may
\* return false only when one does.
C5_FailurePropagatesUnlessUnequal ==
  C5_Case => /\ last.result \in {Raise, F}
             /\ UnequalNames = {} => last.result = Raise

\* Two names, one with incomparable values and one with equal values held in
\* distinct objects: the comparison has ended in the failure.
C5_Witness ==
  /\ C5_Case
  /\ Cardinality(DOMAIN LhsData.constants_) = 2
  /\ UnequalNames = {}
  /\ LhsData.constants_ # RhsData.constants_
  /\ last.result = Raise

\* The entries of a modules_ vector, as a set.
Entries(v) == {v[i] : i \in 1..Len(v)}
Names(v) == {v[i].name_ : i \in 1..Len(v)}

\* The two descriptors differ at most in modules_.
AgreeExceptModules == [LhsData EXCEPT !.modules_ = << >>] = [RhsData EXCEPT !.modules_ = << >>]

\* Every entry of the vector holds a submodule: a nested type or an interface
\* type.
HoldSubmodules(v) ==
  \A i \in 1..Len(v) : v[i].meta_ # NullMeta \/ v[i].type_ # NullType

\* C6 as stated: two non-poisoned descriptors that agree on every other field
\* and hold the same entries under distinct names compare equal, in whatever
\* order the entries were added and whatever the iterable kind.
C6_SameEntriesEqual ==
  ( /\ Compared
    /\ ~LhsData.isPoisoned_ /\ ~RhsData.isPoisoned_
    /\ AgreeExceptModules
    /\ Len(LhsData.modules_) = Len(RhsData.modules_)
    /\ Entries(LhsData.modules_) = Entries(RhsData.modules_)
    /\ Cardinality(Names(LhsData.modules_)) = Len(LhsData.modules_) )
  => last.result = T

\* C6 amended: they compare equal when, in addition, every entry holds a
\* nested type or an interface type; an entry made by addModule with nullptr
\* holds neither and is unequal to every entry, itself included.
C6_OrderIndependent ==
  ( /\ Compared
    /\ ~LhsData.isPoisoned_ /\ ~RhsData.isPoisoned_
    /\ AgreeExceptModules
    /\ Len(LhsData.modules_) = Len(RhsData.modules_)
    /\ Entries(LhsData.modules_) = Entries(RhsData.modules_)
    /\ HoldSubmodules(LhsData.modules_)
    /\ Cardinality(Names(LhsData.modules_)) = Len(LhsData.modules_) )
  => last.result = T

\* A nested type and an interface entry added in opposite orders to two
\* descriptors of an iterable kind other than NONE: they compared equal.
C6_Witness ==
  /\ Compared
  /\ LhsData.iterableModuleKind_ # "NONE"
  /\ Len(LhsData.modules_) = 2
  /\ Entries(LhsData.modules_) = Entries(RhsData.modules_)
  /\ LhsData.modules_ # RhsData.modules_
  /\ \E i, j \in 1..2 : /\ LhsData.modules_[i].meta_ # NullMeta
                        /\ LhsData.modules_[j].type_ # NullType
  /\ last.result = T

\* C7 as stated: descriptors that agree on every other field and have as many
\* entries each, but not the same names (so that after sorting by name some
\* position holds two different names), compare unequal.
C7_NamesDiscriminate ==
  ( /\ Compared
    /\ AgreeExceptModules
    /\ Len(LhsData.modules_) = Len(RhsData.modules_)
    /\ Cardinality(Names(LhsData.modules_)) = Len(LhsData.modules_)
    /\ Cardinality(Names(RhsData.modules_)) = Len(RhsData.modules_)
    /\ Names(LhsData.modules_) # Names(RhsData.modules_) )
  => last.result = F

\* The function-attribute names held by both sides with different handles.
DifferentHandles ==
  {k \in DOMAIN LhsData.functionAttributes_ \cap DOMAIN RhsData.functionAttributes_ :
     LhsData.functionAttributes_[k].pyFunction_ #
       RhsData.functionAttributes_[k].pyFunction_}

\* C8: descriptors whose function objects differ under some shared name
\* compare unequal, whatever the function types; descriptors that compare
\* equal hold the identical function object under every name.
C8_FunctionIdentity ==
  /\ (Compared /\ DifferentHandles # {}) => last.result = F
  /\ (Compared /\ last.result = T /\ ~SameFinal) =>
        /\ DOMAIN LhsData.functionAttributes_ = DOMAIN RhsData.functionAttributes_
        /\ DifferentHandles = {}

\* Same class, same overloads, same function-attribute names and types, a
\* different function object: compared and found unequal.
C8_Witness ==
  /\ Compared
  /\ LhsData.overloads_ = RhsData.overloads_
  /\ DOMAIN LhsData.overloads_ # {}
  /\ DOMAIN LhsData.functionAttributes_ = DOMAIN RhsData.functionAttributes_
  /\ DifferentHandles # {}
  /\ \A k \in DOMAIN LhsData.functionAttributes_ :
       LhsData.functionAttributes_[k].function_ =
         RhsData.functionAttributes_[k].function_
  /\ last.result = F

\* C9: descriptors of different Python classes compare unequal in all three
\* forms of equals, whatever else they hold.
C9_OriginDiscriminates ==
  (Compared /\ LhsData.pyClass_ # RhsData.pyClass_) => last.result = F

\* Two non-poisoned ConcreteModuleTypes identical but for the class have been
\* compared and found unequal.
C9_Witness ==
  /\ last.op = FinalFinal
  /\ ~LhsData.isPoisoned_
  /\ LhsData.pyClass_ # RhsData.pyClass_
  /\ [LhsData EXCEPT !.pyClass_ = RhsData.pyClass_] = RhsData
  /\ last.result = F

\* C10: two non-poisoned descriptors with field-by-field identical content
\* compare equal as builder and builder, as builder and ConcreteModuleType,
\* and as two ConcreteModuleTypes built separately.
C10_StructuralReuse ==
  (Compared /\ ~LhsData.isPoisoned_ /\ LhsData = RhsData) => last.result = T

\* Builder B, holding a number and an array constant, has been compared with
\* the ConcreteModuleType built from the identically populated builder A.
C10_Witness ==
  /\ last.op = RawFinal
  /\ last.lhs = "B"
  /\ finals[last.rhs].data_ = builders["A"]
  /\ builders["B"] = builders["A"]
  /\ DOMAIN builders["B"].constants_ = ConstantNames
  /\ last.result = T

\* The attribute names held by both sides with a different type or flag.
DifferentAttributes ==
  {k \in DOMAIN LhsData.attributes_ \cap DOMAIN RhsData.attributes_ :
     \/ LhsData.attributes_[k].type_ # RhsData.attributes_[k].type_
     \/ LhsData.attributes_[k].isParam_ # RhsData.attributes_[k].isParam_}

\* C11: descriptors with the same attribute names that differ under some name
\* in the attribute's type or in its isParameter flag compare unequal.
C11_AttributeDiscriminates ==
  ( /\ Compared
    /\ DOMAIN LhsData.attributes_ = DOMAIN RhsData.attributes_
    /\ DifferentAttributes # {} )
  => last.result = F

\* Two descriptors alike but for the flag of the parameter w (same type, same
\* second attribute) have been compared.
C11_Witness ==
  /\ Compared
  /\ DOMAIN LhsData.attributes_ = AttributeNames
  /\ DOMAIN RhsData.attributes_ = AttributeNames
  /\ LhsData.attributes_["w"].type_ = RhsData.attributes_["w"].type_
  /\ LhsData.attributes_["w"].isParam_ # RhsData.attributes_["w"].isParam_
  /\ [LhsData EXCEPT !.attributes_ = EmptyMap] = [RhsData EXCEPT !.attributes_ = EmptyMap]
  /\ last.result = F

\* The ConcreteModuleTypes built from builder b, told by the class when the
\* two builders were made for different classes.
DifferentClasses == builders["A"].pyClass_ # builders["B"].pyClass_
BuiltFrom(b) == {i \in FinalIds : finals[i].data_.pyClass_ = builders[b].pyClass_}

\* C12 as stated: a builder that has been built is consumed: it is built at
\* most once and holds for ever what it held at build().
C12_BuilderConsumed ==
  DifferentClasses =>
    \A b \in BuilderIds :
      /\ Cardinality(BuiltFrom(b)) <= 1
      /\ \A i \in BuiltFrom(b) : finals[i].data_ = builders[b]

FindOps ==
  {"findConstant", "findOverloads", "findFunctionAttribute",
   "findFailedAttribute", "findSubmoduleConcreteType"}

\* C13: every ConcreteModuleType made so far keeps its descriptor (all
\* fields) and its compiled class type, with its fields, through every step:
\* setters on the builder it came from, comparisons, queries, other builds.
C13_FinalizedImmutable ==
  [][\A i \in 1..Len(finals) :
       /\ i <= Len(finals')
       /\ finals'[i] = finals[i]
       /\ classes'[finals[i].jitType_] = classes[finals[i].jitType_]]_vars

\* A ConcreteModuleType built from builder A before A was poisoned and given
\* a submodule is still as it was built, and has just been queried.
C13_Witness ==
  /\ last.op \in FindOps
  /\ builders["A"].isPoisoned_
  /\ builders["A"].modules_ # << >>
  /\ finals[last.on].data_ = Populated("Foo", MemberKinds)

\* What is stored under a name in a map of a descriptor.
Stored(m, name) == IF name \in DOMAIN m THEN <<m[name]>> ELSE << >>

\* The nested types addModule has stored under a name.
NestedTypesNamed(d, name) ==
  {e.meta_ : e \in {x \in Entries(d.modules_) :
                       x.name_ = name /\ x.meta_ # NullMeta}}

\* The answers the query in `last` may give, from the descriptor of the
\* ConcreteModuleType it was asked of: what the corresponding setter stored
\* under the name, absent when it stored nothing.
ExpectedAnswers ==
  LET d == finals[last.on].data_
  IN CASE last.op = "findConstant" -> {Stored(d.constants_, last.name)}
       [] last.op = "findOverloads" -> {Stored(d.overloads_, last.name)}
       [] last.op = "findFailedAttribute" ->
            {Stored(d.failedAttributes_, last.name)}
       [] last.op = "findFunctionAttribute" ->
            {IF last.name \in DOMAIN d.functionAttributes_
             THEN <<FunctionOf(d.functionAttributes_[last.name].function_)>>
             ELSE << >>}
       [] last.op = "findSubmoduleConcreteType" ->
            IF NestedTypesNamed(d, last.name) = {} THEN {NullMeta}
            ELSE NestedTypesNamed(d, last.name)

\* C14: every query returns what the setter stored under the name before
\* build(), or absent when the name was never added, never an error, and
\* changes nothing.
C14_QueriesTotalAndPure ==
  /\ [](last.op \in FindOps => last.result \in ExpectedAnswers)
  /\ [][(last'.op \in FindOps /\ last' # last) =>
          UNCHANGED <<builders, finals, classes, mangleIndex>>]_vars

\* findSubmoduleConcreteType has returned the nested type addModule stored
\* under the name, of a type that also holds a constant.
C14_Witness ==
  /\ last.op = "findSubmoduleConcreteType"
  /\ last.result # NullMeta
  /\ NestedTypesNamed(finals[last.on].data_, last.name) = {last.result}
  /\ DOMAIN finals[last.on].data_.constants_ # {}

\* No entry of attributes_ in descriptor d has a function type.
NoFunctionTypedAttribute(d) ==
  \A k \in DOMAIN d.attributes_ : d.attributes_[k].type_ \notin FunctionTypes

\* C15: addAttribute with a function type fails and changes neither a
\* builder nor a ConcreteModuleType nor the compilation unit, so no
\* descriptor ever holds a function-typed attribute.
C15_FunctionTypedRejected ==
  /\ [](/\ \A b \in BuilderIds : NoFunctionTypedAttribute(builders[b])
        /\ \A i \in FinalIds : NoFunctionTypedAttribute(finals[i].data_))
  /\ [][(last'.op = "addAttribute" /\ last' # last) =>
          UNCHANGED <<builders, finals, classes, mangleIndex>>]_vars

\* addAttribute has just failed, with an attribute held by some builder and
\* a class type registered by an earlier build.
C15_Witness ==
  /\ last.op = "addAttribute"
  /\ last.result = "assert"
  /\ \E b \in BuilderIds : DOMAIN builders[b].attributes_ # {}
  /\ finals # << >>

\* One entry holds a nested type and the other an interface type.
NestedVersusInterface(x, y) ==
  \/ x.meta_ # NullMeta /\ y.meta_ = NullMeta /\ y.type_ # NullType
  \/ y.meta_ # NullMeta /\ x.meta_ = NullMeta /\ x.type_ # NullType

\* The positions at which two sequences of as many entries hold such a pair.
MismatchedPositions(s, t) ==
  {i \in 1..Len(s) : NestedVersusInterface(s[i], t[i])}

\* The pairs of name-sorted sequences the comparison in `last` can have
\* worked on: one pair when the names within each descriptor are distinct;
\* entries of one name can be left in either order, the same on both sides
\* when the two vectors are equal.
SortedPairs ==
  IF LhsData.modules_ = RhsData.modules_
  THEN {<<s, s>> : s \in SortedByName(LhsData.modules_)}
  ELSE SortedByName(LhsData.modules_) \X SortedByName(RhsData.modules_)

\* C16: descriptors with as many submodule entries each, one of which holds
\* a nested type where, at the same position of the name-sorted sequences, the
\* other holds an interface type, compare unequal, whichever side holds
\* which.
C16_NestedVersusInterface ==
  ( /\ Compared
    /\ Len(LhsData.modules_) = Len(RhsData.modules_)
    /\ \A p \in SortedPairs : MismatchedPositions(p[1], p[2]) # {} )
  => last.result = F

\* Two descriptors alike but for the entry named b, a nested type on the
\* left and an interface type on the right, have been compared.
C16_Witness ==
  /\ Compared
  /\ AgreeExceptModules
  /\ Len(LhsData.modules_) = 2
  /\ Names(LhsData.modules_) = {"a", "b"}
  /\ Names(RhsData.modules_) = {"a", "b"}
  /\ \A p \in SortedPairs : /\ MismatchedPositions(p[1], p[2]) = {2}
                            /\ p[1][1] = p[2][1]
                            /\ p[1][2].meta_ # NullMeta
  /\ last.result = F

\* C17: a comparison, whatever its form and result, leaves every builder and
\* every ConcreteModuleType as it was, the order of modules_ included.
C17_EqualsIsPure ==
  [][(last'.op \in {RawRaw, RawFinal, FinalFinal} /\ last' # last) =>
       /\ builders' = builders
       /\ finals' = finals
       /\ classes' = classes]_vars

\* A descriptor whose submodules were added in the order b, a has been
\* compared with one holding them in the order a, b: it still holds b, a.
C17_Witness ==
  /\ Compared
  /\ Len(LhsData.modules_) = 2
  /\ LhsData.modules_[1].name_ = "b"
  /\ LhsData.modules_[2].name_ = "a"
  /\ Len(RhsData.modules_) = 2
  /\ RhsData.modules_[1].name_ = "a"

\* The attribute names of a descriptor in the order in which addAttribute
\* inserted them.
InsertionOrder(d) == d.attributesInserted_

\* C18 as stated: the class type of every ConcreteModuleType has one field
\* per attribute, in the order of the addAttribute calls, followed by one
\* non-parameter field per submodule entry, in the order of insertion.
C18_FieldsInInsertionOrder ==
  \A i \in FinalIds :
    classes[finals[i].jitType_].attributes =
      ClassFields(finals[i].data_, InsertionOrder(finals[i].data_))

\* Map `after` holds every entry of map `before`, as it was.
KeepsEntries(before, after) ==
  \A k \in DOMAIN before : k \in DOMAIN after /\ after[k] = before[k]

\* Descriptor `after` holds everything descriptor `before` held.
KeepsAll(before, after) ==
  /\ KeepsEntries(before.constants_, after.constants_)
  /\ KeepsEntries(before.attributes_, after.attributes_)
  /\ KeepsEntries(before.functionAttributes_, after.functionAttributes_)
  /\ KeepsEntries(before.overloads_, after.overloads_)
  /\ KeepsEntries(before.failedAttributes_, after.failedAttributes_)
  /\ Len(after.modules_) >= Len(before.modules_)
  /\ SubSeq(after.modules_, 1, Len(before.modules_)) = before.modules_
  /\ before.isPoisoned_ => after.isPoisoned_

\* C19: a setter called with a name its map already holds leaves the entry
\* first stored under that name as it is, and no setter removes an entry
\* from any field.
C19_WriteOncePerName ==
  [][\A b \in BuilderIds : KeepsAll(builders[b], builders'[b])]_vars

\* Builder A holds a constant and an attribute, and as many entries as the
\* driver lets it hold: every call of addConstant or addAttribute that follows
\* names an entry already present.
C19_Witness ==
  /\ DOMAIN builders["A"].constants_ # {}
  /\ DOMAIN builders["A"].attributes_ # {}
  /\ Members(builders["A"]) = MaxMembers

\* The two descriptors differ at most in failedAttributes_.
AgreeExceptFailed ==
  [LhsData EXCEPT !.failedAttributes_ = EmptyMap] =
    [RhsData EXCEPT !.failedAttributes_ = EmptyMap]

\* C20: two non-poisoned descriptors that agree on every field but
\* failedAttributes_ compare equal, whatever their failedAttributes_ hold.
C20_FailedAttributesIgnored ==
  (Compared /\ ~LhsData.isPoisoned_ /\ AgreeExceptFailed) => last.result = T

\* A builder with a failed attribute has been compared with the
\* ConcreteModuleType of a descriptor with the same overloads and another
\* reason under the same failed name, and found equal.
C20_Witness ==
  /\ last.op = RawFinal
  /\ AgreeExceptFailed
  /\ DOMAIN LhsData.overloads_ # {}
  /\ DOMAIN LhsData.failedAttributes_ = FailedNames
  /\ DOMAIN RhsData.failedAttributes_ = FailedNames
  /\ LhsData.failedAttributes_ # RhsData.failedAttributes_
  /\ last.result = T

\* The ways the comparison in `last` can end when it is called the other way
\* round, rhs.equals(lhs), in the state it has left.
Swapped ==
  IF last.op = RawRaw THEN RawEqualsRaw(last.rhs, last.lhs)
  ELSE ConcreteModuleType_equals(last.rhs, last.lhs)

\* Every descriptor, in a builder or in a ConcreteModuleType, nested ones
\* included.
Descriptors ==
  {builders[b] : b \in BuilderIds} \cup {finals[i].data_ : i \in FinalIds}

\* No descriptor holds two submodule entries of one name.
DistinctSubmoduleNames ==
  \A d \in Descriptors : Cardinality(Names(d.modules_)) = Len(d.modules_)

\* The == of the constant values in use is symmetric and never fails.
HeldConstants ==
  UNION {{d.constants_[k] : k \in DOMAIN d.constants_} : d \in Descriptors}
SymmetricNonFailingEq ==
  \A v, w \in HeldConstants :
    /\ PyObject_RichCompareBool(v, w) # -1
    /\ PyObject_RichCompareBool(v, w) = PyObject_RichCompareBool(w, v)

\* C21: when a.equals(b) has returned r, for two builders or for two
\* ConcreteModuleTypes, b.equals(a) returns r as well, provided that submodule
\* names are distinct within each descriptor and that the == of the constant
\* values is symmetric and does not fail; entries may be nested types or
\* interface types and either operand may be poisoned.
C21_EqualsIsSymmetric ==
  ( /\ last.op \in {RawRaw, FinalFinal}
    /\ DistinctSubmoduleNames
    /\ SymmetricNonFailingEq )
  => Swapped = {last.result}

\* A builder that is not poisoned has been compared with a poisoned one
\* holding the same two entries, a nested type and an interface type, added
\* in another order: the result is false, as it is the other way round.
C21_Witness ==
  /\ last.op = RawRaw
  /\ ~LhsData.isPoisoned_ /\ RhsData.isPoisoned_
  /\ Len(LhsData.modules_) = 2
  /\ Entries(LhsData.modules_) = Entries(RhsData.modules_)
  /\ LhsData.modules_ # RhsData.modules_
  /\ \E i, j \in 1..2 : /\ LhsData.modules_[i].meta_ # NullMeta
                        /\ LhsData.modules_[j].type_ # NullType
  /\ last.result = F
  /\ Swapped = {F}

====
